---- MODULE Spec2Model ----
(***************************************************************************)
(* Posting-time scheduler of the social media agent                        *)
(* (src/agents/scheduler.py, class SchedulerAgent).                        *)
(*                                                                         *)
(* Time is counted in units of half an hour: every time of day of the      *)
(* platform table is a whole hour and the conflict pass pads by 0.5 h, so  *)
(* every instant the scheduler produces is a whole number of units.  A     *)
(* datetime is the number of units since 00:00 of day 0, day 0 being a     *)
(* Monday; all datetimes of one SchedulerAgent carry the same tzinfo, so   *)
(* comparing and subtracting them is wall-clock arithmetic.                *)
(*                                                                         *)
(* A state is the agent's table together with the arguments and the        *)
(* result of the call that returned last.  None of the operations keeps    *)
(* anything between calls: the caller drops the result (ReleaseResult)     *)
(* before it makes the next call.                                          *)
(*                                                                         *)
(* Three more parts of the program stand next to the scheduler, each with  *)
(* a specification of its own: the loop of the orchestrator that hands the *)
(* posts of a calendar to the platform manager                             *)
(* (src/agents/orchestrator.py, src/tools/platform_apis.py), the handling  *)
(* of one comment by the engagement agent                                  *)
(* (src/agents/engagement_handler.py), and the monitoring run of           *)
(* src/run_engagement_agent.py.                                            *)
(***************************************************************************)
EXTENDS Integers, Sequences, FiniteSets, TLC

VARIABLES
    optimal_times,       \* SchedulerAgent.optimal_times: platform -> times of day
    op,                  \* the operation that returned last, "idle" if none
    got_platform,        \* get_optimal_time: argument platform
    got_date,            \* get_optimal_time: argument date (a datetime)
    got_custom_times,    \* get_optimal_time: argument custom_times
    scheduled_datetime,  \* get_optimal_time: the value returned
    platforms,           \* create_weekly_schedule: argument platforms
    posts_per_week,      \* create_weekly_schedule: argument posts_per_week
    start_date,          \* create_weekly_schedule: datetime.now(self.timezone)
    df,                  \* create_weekly_schedule: the rows of the frame returned
    raised,              \* the exception the last call ended with, "" if none
    posts_arg,           \* avoid_conflicts: scheduled_posts as passed in
    min_gap_hours,       \* avoid_conflicts: argument min_gap_hours
    scheduled_posts,     \* avoid_conflicts: the caller's list after the call
    adjusted,            \* avoid_conflicts: the list returned
    buffer_token,        \* PlatformManager.buffer_token is set
    tweepy_installed,    \* the module tweepy can be imported
    calendar,            \* schedule_all_posts: content_calendar['posts']
    results,             \* schedule_all_posts: the dict results
    publish_log,         \* what schedule_post did for each post handled so far
    orch_pc,             \* schedule_all_posts: "idle", "loop" or "returned"
    comment_pc,          \* process_comment: "idle" or "processed"
    comment_result,      \* process_comment: the dict returned
    chain_runs,          \* process_comment: the LLM chains run, in order
    monitored,           \* start_monitoring: argument platforms
    monitor_index,       \* start_monitoring: the place of the for loop
    monitor_pc,          \* the place of the monitoring run
    checked,             \* the platforms logged as checked so far
    interrupts           \* the KeyboardInterrupts delivered so far

schedulerVars == <<optimal_times, op, got_platform, got_date, got_custom_times,
                   scheduled_datetime, platforms, posts_per_week, start_date, df,
                   raised, posts_arg, min_gap_hours, scheduled_posts, adjusted>>
orchestratorVars == <<buffer_token, tweepy_installed, calendar, results,
                      publish_log, orch_pc>>
engagementVars == <<comment_pc, comment_result, chain_runs>>
monitorVars == <<monitored, monitor_index, monitor_pc, checked, interrupts>>

vars == <<schedulerVars, orchestratorVars, engagementVars, monitorVars>>

----------------------------------------------------------------------------
(* Bounds of the model *)

\* longest list handed to avoid_conflicts
MaxPosts == 3
\* latest datetime (in units) of an entry handed to avoid_conflicts
MaxSlot == 4
\* largest min_gap_hours
MaxGap == 2
\* latest day of the date handed to get_optimal_time
MaxDate == 7
\* longest custom_times
MaxCustom == 3
\* longest list of platforms, and most keys of posts_per_week
MaxPlatforms == 2
\* largest number of posts per week
MaxCount == 8
\* latest day on which create_weekly_schedule is called
MaxStartDay == 1

----------------------------------------------------------------------------
(* Units *)

\* timedelta(hours=... + 0.5): half an hour is one unit
UnitsPerHour == 2
HoursPerDay == 24
DaysPerWeek == 7
UnitsPerDay == HoursPerDay * UnitsPerHour

\* datetime.time(h, m), m a multiple of 30
Time(h, m) == h * UnitsPerHour + (m * UnitsPerHour) \div 60

\* datetime.combine(date, time, tzinfo=self.timezone)
Combine(date, t) == date * UnitsPerDay + t
\* datetime.date()
DateOf(dt) == dt \div UnitsPerDay
\* datetime.time()
TimeOf(dt) == dt % UnitsPerDay
\* datetime.weekday(): Monday = 0 .. Sunday = 6
Weekday(dt) == DateOf(dt) % DaysPerWeek

DayNames == <<"Monday", "Tuesday", "Wednesday", "Thursday", "Friday",
              "Saturday", "Sunday">>
\* datetime.strftime('%A')
DayName(dt) == DayNames[Weekday(dt) + 1]

----------------------------------------------------------------------------
(* get_optimal_time *)

\* the name taken as it is written
LowerNone(platform) == platform

\* str.lower() on the platform names of the model
Lower(platform) ==
    CASE platform = "Instagram" -> "instagram"
      [] platform = "INSTAGRAM" -> "instagram"
      [] platform = "Facebook"  -> "facebook"
      [] OTHER -> platform

\* a default of two times, taken in turn
DefaultTimesTwo == <<Time(12, 0), Time(18, 0)>>

\* [time(12, 0)]
DefaultTimes == <<Time(12, 0)>>

\* an empty custom_times answered with the default list
ResolvedTimesEmptyDefault(table, platform, custom_times) ==
    IF custom_times.given
    THEN IF custom_times.times # <<>> THEN custom_times.times ELSE DefaultTimes
    ELSE IF Lower(platform) \in DOMAIN table
         THEN table[Lower(platform)]
         ELSE DefaultTimes

\* custom_times or self.optimal_times.get(platform.lower(), [time(12, 0)]):
\* None and the empty list are both falsy
ResolvedTimes(table, platform, custom_times) ==
    IF custom_times.given /\ custom_times.times # <<>>
    THEN custom_times.times
    ELSE IF Lower(platform) \in DOMAIN table
         THEN table[Lower(platform)]
         ELSE DefaultTimes

\* the week counted from Sunday
TimeIndexSundayFirst(day_index, n) == (day_index + 1) % n

\* time_index = day_index % len(times)
TimeIndex(day_index, n) == day_index % n

\* selected_time = times[time_index]
SelectedTime(table, platform, date, custom_times) ==
    LET times == ResolvedTimes(table, platform, custom_times)
    IN  times[TimeIndex(Weekday(date), Len(times)) + 1]

\* the value get_optimal_time returns
GetOptimalTime(table, platform, date, custom_times) ==
    Combine(DateOf(date), SelectedTime(table, platform, date, custom_times))

\* the arguments of the calls of get_optimal_time
SelectorPlatforms ==
    {"instagram", "Instagram", "INSTAGRAM", "linkedin", "twitter", "facebook",
     "Facebook", "unknown_platform_xyz"}
NowTimes == {Time(0, 0), Time(16, 30)}
Dates == {Combine(d, t) : d \in 0..MaxDate, t \in NowTimes}
CustomTimeValues == {Time(6, 0), Time(18, 30)}
NoCustom == [given |-> FALSE, times |-> <<>>]
CustomTimes ==
    {NoCustom} \cup
    UNION { {[given |-> TRUE, times |-> ts] : ts \in [1..n -> CustomTimeValues]}
            : n \in 0..MaxCustom }

----------------------------------------------------------------------------
(* create_weekly_schedule *)

\* posts_per_week.get(platform, 7)
DefaultCount == 7
\* a platform without a count gets a single post
CountForSingle(ppw, platform) ==
    IF platform \in DOMAIN ppw THEN ppw[platform] ELSE DefaultCount \div DaysPerWeek
CountFor(ppw, platform) ==
    IF platform \in DOMAIN ppw THEN ppw[platform] ELSE DefaultCount

\* one post on each of the first days
DayOffsetConsecutive(i, count) == i

\* the posts counted from 1: the last one falls on the day after the week
DayOffsetFromOne(i, count) == ((i + 1) * DaysPerWeek) \div count

\* day_offset = (i * 7) // count
DayOffset(i, count) == (i * DaysPerWeek) \div count

\* timedelta(days=day_offset)
Days(n) == n * UnitsPerDay

\* the dict appended for post i of the platform; id is its place in the
\* list, which becomes the label of its row in the frame
ScheduleRow(table, platform, start, i, count, id) ==
    LET post_date == start + Days(DayOffset(i, count))
        post_time == GetOptimalTime(table, platform, post_date, NoCustom)
    IN  [id |-> id, platform |-> platform, date |-> DateOf(post_date),
         time |-> TimeOf(post_time), datetime |-> post_time,
         day_of_week |-> DayName(post_time)]

\* a negative count taken for its absolute value
PlatformRowsAbsolute(table, platform, start, count, base) ==
    LET c == IF count < 0 THEN 0 - count ELSE count
    IN  [n \in 1..c |-> ScheduleRow(table, platform, start, n - 1, c, base + n)]

\* for i in range(count): range of a negative count is empty
PlatformRows(table, platform, start, count, base) ==
    [n \in 1..(IF count > 0 THEN count ELSE 0) |->
        ScheduleRow(table, platform, start, n - 1, count, base + n)]

\* for platform in platforms: ...
RECURSIVE ScheduleList(_, _, _, _, _)
ScheduleList(table, pfs, ppw, start, acc) ==
    IF pfs = <<>> THEN acc
    ELSE ScheduleList(table, Tail(pfs), ppw, start,
                      acc \o PlatformRows(table, Head(pfs), start,
                                          CountFor(ppw, Head(pfs)), Len(acc)))

\* the rows ordered by their date alone
FrameSortKeyDate(row) == row.date
\* the rows ordered by their time of day before their date
FrameSortKeyTime(row) == row.time * (MaxStartDay + DaysPerWeek + 1) + row.date

\* df.sort_values('datetime')
FrameSortKey(row) == row.datetime

\* sort_values sorts with kind='quicksort', which promises nothing about rows
\* of equal key: they come out in the order of the list or against it
TieOrders == {"kept", "reversed"}

RECURSIVE InsertRow(_, _, _)
InsertRow(row, s, tie) ==
    IF s = <<>> THEN <<row>>
    ELSE IF \/ FrameSortKey(Head(s)) < FrameSortKey(row)
            \/ (tie = "kept" /\ FrameSortKey(Head(s)) = FrameSortKey(row))
         THEN <<Head(s)>> \o InsertRow(row, Tail(s), tie)
         ELSE <<row>> \o s

RECURSIVE SortValues(_, _)
SortValues(rows, tie) ==
    IF rows = <<>> THEN <<>>
    ELSE InsertRow(rows[Len(rows)], SortValues(SubSeq(rows, 1, Len(rows) - 1), tie), tie)

\* the arguments of the calls of create_weekly_schedule
BuilderPlatforms == {"instagram", "Instagram", "facebook"}
PlatformLists == UNION {[1..n -> BuilderPlatforms] : n \in 0..MaxPlatforms}
Counts == (-1)..MaxCount
\* posts_per_week is read under the names of the list only: its keys are
\* these names in some letter case
PostsPerWeek(pfs) ==
    LET listed == {Lower(pfs[i]) : i \in 1..Len(pfs)}
        keys == {k \in BuilderPlatforms : Lower(k) \in listed}
    IN  UNION {[K -> Counts] : K \in {S \in SUBSET keys : Cardinality(S) <= MaxPlatforms}}
\* datetime.now(self.timezone)
StartTime == Time(16, 30)
StartDates == {Combine(d, StartTime) : d \in 0..MaxStartDay}

----------------------------------------------------------------------------
(* avoid_conflicts *)

\* a sort that keeps the order of the input
SortKeyConstant(post) == 0

\* the key of sorted(scheduled_posts, key=lambda x: x['datetime'])
SortKey(post) == post.datetime

\* sorted() is stable: a post goes behind every post whose key is not larger
RECURSIVE InsertByKey(_, _)
InsertByKey(post, s) ==
    IF s = <<>> THEN <<post>>
    ELSE IF SortKey(Head(s)) <= SortKey(post)
         THEN <<Head(s)>> \o InsertByKey(post, Tail(s))
         ELSE <<post>> \o s

RECURSIVE SortedPosts(_)
SortedPosts(posts) ==
    IF posts = <<>> THEN <<>>
    ELSE InsertByKey(posts[Len(posts)], SortedPosts(SubSeq(posts, 1, Len(posts) - 1)))

\* (scheduled_time - last_post_time[platform]).total_seconds() / 3600, in units
TimeDiff(scheduled_time, last) == scheduled_time - last

\* a gap of exactly min_gap_hours taken for a conflict
IsConflictInclusive(time_diff, min_gap) == time_diff <= min_gap * UnitsPerHour

\* the gap asked for taken for its absolute value
IsConflictAbsolute(time_diff, min_gap) ==
    time_diff < (IF min_gap < 0 THEN 0 - min_gap ELSE min_gap) * UnitsPerHour

\* time_diff < min_gap_hours
IsConflict(time_diff, min_gap) == time_diff < min_gap * UnitsPerHour

\* the padding alone, without the deficit
AdjustmentPadOnly(min_gap, time_diff) == 1
\* the deficit without the padding
AdjustmentNoPad(min_gap, time_diff) == min_gap * UnitsPerHour - time_diff
\* the deficit with its sign turned
AdjustmentBackward(min_gap, time_diff) == time_diff - min_gap * UnitsPerHour - 1

\* one hour whatever the deficit
AdjustmentOneHour(min_gap, time_diff) == UnitsPerHour

\* timedelta(hours=min_gap_hours - time_diff + 0.5), in units
Adjustment(min_gap, time_diff) == min_gap * UnitsPerHour - time_diff + 1

\* post['datetime'] = scheduled_time + adjustment: no other key is written
ShiftPost(post, adjustment) ==
    [post EXCEPT !.datetime = post.datetime + adjustment]

\* the body of the loop, for one post: the post as appended to adjusted
AdjustPost(post, last_post_time, min_gap) ==
    IF post.platform \in DOMAIN last_post_time
    THEN LET time_diff == TimeDiff(post.datetime, last_post_time[post.platform])
         IN  IF IsConflict(time_diff, min_gap)
             THEN ShiftPost(post, Adjustment(min_gap, time_diff))
             ELSE post
    ELSE post

\* the slot the post had before the shift taken as the platform's last time
RecordLastUnshifted(last_post_time, post) ==
    [p \in DOMAIN last_post_time \cup {post.platform} |->
        IF p = post.platform THEN Combine(post.date, post.time) ELSE last_post_time[p]]

\* last_post_time[platform] = post['datetime']
RecordLast(last_post_time, post) ==
    [p \in DOMAIN last_post_time \cup {post.platform} |->
        IF p = post.platform THEN post.datetime ELSE last_post_time[p]]

\* for post in sorted_posts: ...; adjusted.append(post)
RECURSIVE ConflictLoop(_, _, _, _)
ConflictLoop(sorted_posts, min_gap, last_post_time, adj) ==
    IF sorted_posts = <<>> THEN adj
    ELSE LET post == AdjustPost(Head(sorted_posts), last_post_time, min_gap)
         IN  ConflictLoop(Tail(sorted_posts), min_gap,
                          RecordLast(last_post_time, post), Append(adj, post))

\* the list sorted once more after the shifts
AvoidConflictsResorted(posts, min_gap) ==
    SortedPosts(ConflictLoop(SortedPosts(posts), min_gap, <<>>, <<>>))

\* the value avoid_conflicts returns
AvoidConflictsResult(posts, min_gap) ==
    ConflictLoop(SortedPosts(posts), min_gap, <<>>, <<>>)

\* The posts are dicts changed in place: the caller's list holds the same
\* objects as the list returned, in the order the caller gave them.
PostById(s, id) == s[CHOOSE i \in 1..Len(s) : s[i].id = id]
CallerList(posts, result) == [i \in 1..Len(posts) |-> PostById(result, posts[i].id)]

\* the platforms and datetimes of the entries handed to avoid_conflicts
ResolverPlatforms == {"instagram", "twitter"}
Slots == 0..MaxSlot
Gaps == (-1)..MaxGap

\* an entry as create_weekly_schedule builds it; id stands for the identity
\* of the dict
Entry(id, platform, dt) ==
    [id |-> id, platform |-> platform, date |-> DateOf(dt), time |-> TimeOf(dt),
     datetime |-> dt, day_of_week |-> DayName(dt)]

PostLists ==
    UNION {
        { [i \in 1..n |-> Entry(i, pf[i], dts[i])] :
            pf \in [1..n -> ResolverPlatforms], dts \in [1..n -> Slots] }
        : n \in 0..MaxPosts }

----------------------------------------------------------------------------
(* PlatformManager.schedule_post and SocialMediaOrchestrator.schedule_all_posts *)

\* longest content_calendar['posts']
MaxCalendar == 2

\* what the remote API does with a request: it answers with an id, answers
\* without one, or the request fails (raise_for_status, no connection)
ApiAnswers == {"id", "no_id", "error"}

\* Python's None where a string may stand
NoneId == "None"
\* result.get('id')
IdOf(answer) == IF answer = "id" THEN "post_1" ELSE NoneId

\* return {'success': False, 'error': str(e)}
Failure(error) == [success |-> FALSE, error |-> error]

\* _schedule_via_buffer: the result of the request, whatever the platform
ScheduleViaBuffer(platform, scheduled_time, answer) ==
    IF answer = "error" THEN Failure("Buffer API error")
    ELSE [success |-> TRUE, id |-> IdOf(answer), platform |-> platform,
          scheduled_time |-> scheduled_time]

\* _schedule_instagram and _schedule_twitter read ['id'] of the answer
\* inside the try: an answer without id ends in the except branch;
\* _schedule_linkedin and _schedule_facebook read it with get('id')
ScheduleDirect(platform, scheduled_time, answer) ==
    CASE Lower(platform) = "instagram" ->
            IF answer = "id" THEN [success |-> TRUE, id |-> IdOf(answer),
                                   platform |-> "instagram"]
            ELSE Failure("Instagram API error")
      [] Lower(platform) = "linkedin" ->
            IF answer = "error" THEN Failure("LinkedIn API error")
            ELSE [success |-> TRUE, id |-> IdOf(answer), platform |-> "linkedin"]
      [] Lower(platform) = "twitter" ->
            IF answer = "id" THEN [success |-> TRUE, id |-> IdOf(answer),
                                   platform |-> "twitter"]
            ELSE Failure("Twitter API error")
      [] Lower(platform) = "facebook" ->
            IF answer = "error" THEN Failure("Facebook API error")
            ELSE [success |-> TRUE, id |-> IdOf(answer), platform |-> "facebook"]
      [] OTHER -> Failure("Unsupported platform")

\* schedule_post: Buffer if there is a token, the platform's API if not.
\* _schedule_twitter imports tweepy before its try: without the module the
\* exception leaves schedule_post
SchedulePost(token, tweepy, platform, scheduled_time, answer) ==
    IF token
    THEN [raised |-> "", value |-> ScheduleViaBuffer(platform, scheduled_time, answer)]
    ELSE IF Lower(platform) = "twitter" /\ ~tweepy
         THEN [raised |-> "ModuleNotFoundError", value |-> Failure("")]
         ELSE [raised |-> "", value |-> ScheduleDirect(platform, scheduled_time, answer)]

\* if scheduled: a dict is true unless it is empty
Truthy(dict) == DOMAIN dict # {}

\* the id read with get('id'): a dict without id is recorded as scheduled
LoopBodyGetId(res, post, call, optimal_time) ==
    IF call.raised # "" \/ ~Truthy(call.value)
    THEN [res EXCEPT !.failed = Append(@, post)]
    ELSE [res EXCEPT !.scheduled =
            Append(@, [post_id |-> IF "id" \in DOMAIN call.value
                                   THEN call.value.id ELSE NoneId,
                       platform |-> post.platform, time |-> optimal_time])]

\* the body of the loop of schedule_all_posts for one post: scheduled['id']
\* of a dict without id raises KeyError before anything is appended, and
\* the except branch appends the post to failed
LoopBody(res, post, call, optimal_time) ==
    IF call.raised # "" THEN [res EXCEPT !.failed = Append(@, post)]
    ELSE IF Truthy(call.value)
         THEN IF "id" \in DOMAIN call.value
              THEN [res EXCEPT !.scheduled =
                        Append(@, [post_id |-> call.value.id,
                                   platform |-> post.platform,
                                   time |-> optimal_time])]
              ELSE [res EXCEPT !.failed = Append(@, post)]
         ELSE [res EXCEPT !.failed = Append(@, post)]

\* results = {'scheduled': [], 'failed': [], 'total': len(posts)}
NewResults(posts) == [scheduled |-> <<>>, failed |-> <<>>, total |-> Len(posts)]

\* the posts of a calendar: create_posts gives each its platform and, as
\* scheduled_date, the datetime it was made for; id stands for the identity
\* of the dict
CalendarPlatforms == {"Instagram", "twitter", "tiktok"}
CalendarDates == {Combine(d, StartTime) : d \in {0, 1}}
Calendars ==
    UNION {
        { [i \in 1..n |-> [id |-> i, platform |-> pf[i], scheduled_date |-> dt[i]]] :
            pf \in [1..n -> CalendarPlatforms], dt \in [1..n -> CalendarDates] }
        : n \in 0..MaxCalendar }

----------------------------------------------------------------------------
(* EngagementAgent.process_comment *)

UpperCase == "ABCDEFGHIJKLMNOPQRSTUVWXYZ"
LowerCase == "abcdefghijklmnopqrstuvwxyz"

\* str.lower() of one character
LowerChar(c) ==
    IF \E i \in 1..Len(UpperCase) : SubSeq(UpperCase, i, i) = c
    THEN LET i == CHOOSE i \in 1..Len(UpperCase) : SubSeq(UpperCase, i, i) = c
         IN  SubSeq(LowerCase, i, i)
    ELSE c

\* str.lower()
RECURSIVE LowerStr(_)
LowerStr(text) ==
    IF Len(text) = 0 THEN ""
    ELSE LowerChar(SubSeq(text, 1, 1)) \o LowerStr(SubSeq(text, 2, Len(text)))

\* str.strip(), of blanks
RECURSIVE Strip(_)
Strip(text) ==
    IF Len(text) > 0 /\ SubSeq(text, 1, 1) = " "
    THEN Strip(SubSeq(text, 2, Len(text)))
    ELSE IF Len(text) > 0 /\ SubSeq(text, Len(text), Len(text)) = " "
         THEN Strip(SubSeq(text, 1, Len(text) - 1))
         ELSE text

\* keyword in comment_lower
Contains(text, keyword) ==
    \E i \in 1..(Len(text) - Len(keyword) + 1) :
        SubSeq(text, i, i + Len(keyword) - 1) = keyword

\* self.rules
Rules ==
    [c \in {"positive_comment", "question", "complaint", "spam"} |->
        CASE c = "positive_comment" -> [action |-> "auto_respond", escalate |-> FALSE]
          [] c = "question" -> [action |-> "check_faq", escalate_if_no_match |-> TRUE]
          [] c = "complaint" -> [action |-> "immediate_escalate",
                                 auto_acknowledge |-> TRUE]
          [] c = "spam" -> [action |-> "hide", log |-> TRUE]]

\* self.rules.get(classification, {})
RuleFor(classification) ==
    IF classification \in DOMAIN Rules THEN Rules[classification] ELSE <<>>

\* rule.get('action') == action
HasAction(rule, action) == "action" \in DOMAIN rule /\ rule.action = action

\* rule.get(flag, False)
Flag(rule, flag) == flag \in DOMAIN rule /\ rule[flag]

\* self.templates['complaint_ack'].format(name=user_name)
ComplaintAck(user_name) ==
    "We're sorry to hear that, " \o user_name
        \o ". Our team will reach out within 2 hours."

\* classify_comment: chain.run(comment=comment).strip().lower()
ClassifyComment(answer) == LowerStr(Strip(answer))

EscalationKeywords ==
    {"lawsuit", "lawyer", "refund", "cancel", "urgent", "emergency", "serious",
     "manager"}

\* the keywords looked for in the comment as it is written
ShouldEscalateAsWritten(comment, classification) ==
    \/ classification = "complaint"
    \/ Flag(RuleFor(classification), "escalate")
    \/ \E keyword \in EscalationKeywords : Contains(comment, keyword)

\* should_escalate
ShouldEscalate(comment, classification) ==
    \/ classification = "complaint"
    \/ Flag(RuleFor(classification), "escalate")
    \/ \E keyword \in EscalationKeywords : Contains(LowerStr(comment), keyword)

\* An Optional[str] is the empty sequence for None and a sequence of one
\* string for a string.
None == <<>>
Some(text) == <<text>>

\* generate_response: the value returned and whether the chain was run;
\* reply is what the chain answers when it is run
GenerateResponse(classification, user_name, reply) ==
    LET rule == RuleFor(classification)
    IN  IF HasAction(rule, "hide") THEN [response |-> None, ran |-> FALSE]
        ELSE IF HasAction(rule, "immediate_escalate")
             THEN [response |-> IF Flag(rule, "auto_acknowledge")
                                THEN Some(ComplaintAck(user_name)) ELSE None,
                   ran |-> FALSE]
             ELSE [response |-> Some(Strip(reply)), ran |-> TRUE]

\* the dict process_comment returns (processed_at left out) and the chains run
ProcessComment(comment, user_name, platform, post_id, answer, reply) ==
    LET classification == ClassifyComment(answer)
        escalate == ShouldEscalate(comment, classification)
        generated == GenerateResponse(classification, user_name, reply)
    IN  [result |->
            [comment |-> comment, user_name |-> user_name, platform |-> platform,
             post_id |-> post_id, classification |-> classification,
             escalated |-> escalate,
             response |-> IF escalate THEN Some(ComplaintAck(user_name))
                          ELSE generated.response],
         chain_runs |->
            IF ~escalate /\ generated.ran THEN <<"classify", "respond">>
            ELSE <<"classify">>]

\* the comments, the names of their writers, and what the LLM answers
CommentTexts ==
    {"Love this post!", "How does this work?", "This is terrible",
     "I want a REFUND", "Cancellation took ages", "Buy cheap followers",
     "URGENT offer, click here"}
UserNames == {"Sarah", "there"}
CommentPlatforms == {"instagram", "twitter"}
ClassifierAnswers ==
    {"positive", "question", "complaint", "spam", " Spam ", "COMPLAINT", "neutral"}
ResponderAnswers == {" Thanks for the kind words! ", ""}

\* no comment processed yet
NoResult ==
    [comment |-> "", user_name |-> "", platform |-> "", post_id |-> "",
     classification |-> "", escalated |-> FALSE, response |-> None]

----------------------------------------------------------------------------
(* EngagementAgent.start_monitoring, run by main of run_engagement_agent.py *)

\* longest list of platforms to monitor
MaxMonitored == 3
\* most KeyboardInterrupts delivered in one run
MaxInterrupts == 2

\* args.platforms: nargs='+' takes one platform or more
MonitorPlatforms == {"instagram", "linkedin", "twitter"}
MonitorLists == UNION {[1..n -> MonitorPlatforms] : n \in 1..MaxMonitored}

----------------------------------------------------------------------------
\* SchedulerAgent.__init__
OptimalTimes ==
    [p \in {"instagram", "linkedin", "twitter", "facebook"} |->
        CASE p = "instagram" -> <<Time(11, 0), Time(13, 0), Time(19, 0), Time(21, 0)>>
          [] p = "linkedin"  -> <<Time(8, 0), Time(10, 0), Time(12, 0), Time(17, 0)>>
          [] p = "twitter"   -> <<Time(9, 0), Time(12, 0), Time(15, 0), Time(17, 0),
                                  Time(21, 0)>>
          [] p = "facebook"  -> <<Time(13, 0), Time(15, 0), Time(19, 0)>>]

SchedulerInit ==
    /\ optimal_times = OptimalTimes
    /\ op = "idle"
    /\ got_platform = ""
    /\ got_date = 0
    /\ got_custom_times = NoCustom
    /\ scheduled_datetime = 0
    /\ platforms = <<>>
    /\ posts_per_week = <<>>
    /\ start_date = 0
    /\ df = <<>>
    /\ raised = ""
    /\ posts_arg = <<>>
    /\ min_gap_hours = 0
    /\ scheduled_posts = <<>>
    /\ adjusted = <<>>

\* PlatformManager.__init__ reads the token from the environment
OrchestratorInit(token, tweepy) ==
    /\ buffer_token = token
    /\ tweepy_installed = tweepy
    /\ calendar = <<>>
    /\ results = NewResults(<<>>)
    /\ publish_log = <<>>
    /\ orch_pc = "idle"

EngagementInit ==
    /\ comment_pc = "idle"
    /\ comment_result = NoResult
    /\ chain_runs = <<>>

MonitorInit ==
    /\ monitored = <<>>
    /\ monitor_index = 0
    /\ monitor_pc = "idle"
    /\ checked = {}
    /\ interrupts = 0

\* every agent constructed, in an environment without BUFFER_ACCESS_TOKEN
\* and without tweepy
Init ==
    /\ SchedulerInit
    /\ OrchestratorInit(FALSE, FALSE)
    /\ EngagementInit
    /\ MonitorInit

\* the same in any environment
InitOrchestrator ==
    /\ SchedulerInit
    /\ \E token \in BOOLEAN, tweepy \in BOOLEAN : OrchestratorInit(token, tweepy)
    /\ EngagementInit
    /\ MonitorInit

\* the list of the platform moved on by one after each use
get_optimal_time_rotating ==
    /\ op = "idle"
    /\ \E platform \in SelectorPlatforms, date \in Dates, custom_times \in CustomTimes :
        /\ got_platform' = platform
        /\ got_date' = date
        /\ got_custom_times' = custom_times
        /\ scheduled_datetime' = GetOptimalTime(optimal_times, platform, date, custom_times)
        /\ optimal_times' =
            IF Lower(platform) \in DOMAIN optimal_times
            THEN [optimal_times EXCEPT ![Lower(platform)] = Tail(@) \o <<Head(@)>>]
            ELSE optimal_times
    /\ op' = "get_optimal_time"
    /\ raised' = ""
    /\ UNCHANGED <<platforms, posts_per_week, start_date, df,
                   posts_arg, min_gap_hours, scheduled_posts, adjusted>>
    /\ UNCHANGED <<orchestratorVars, engagementVars, monitorVars>>

\* custom_times kept in the table for the calls to come
get_optimal_time_keeping ==
    /\ op = "idle"
    /\ \E platform \in SelectorPlatforms, date \in Dates, custom_times \in CustomTimes :
        /\ got_platform' = platform
        /\ got_date' = date
        /\ got_custom_times' = custom_times
        /\ scheduled_datetime' = GetOptimalTime(optimal_times, platform, date, custom_times)
        /\ optimal_times' =
            IF custom_times.given /\ custom_times.times # <<>>
               /\ Lower(platform) \in DOMAIN optimal_times
            THEN [optimal_times EXCEPT ![Lower(platform)] = custom_times.times]
            ELSE optimal_times
    /\ op' = "get_optimal_time"
    /\ raised' = ""
    /\ UNCHANGED <<platforms, posts_per_week, start_date, df,
                   posts_arg, min_gap_hours, scheduled_posts, adjusted>>
    /\ UNCHANGED <<orchestratorVars, engagementVars, monitorVars>>

get_optimal_time ==
    /\ op = "idle"
    /\ \E platform \in SelectorPlatforms, date \in Dates, custom_times \in CustomTimes :
        /\ got_platform' = platform
        /\ got_date' = date
        /\ got_custom_times' = custom_times
        /\ scheduled_datetime' = GetOptimalTime(optimal_times, platform, date, custom_times)
    /\ op' = "get_optimal_time"
    /\ raised' = ""
    /\ UNCHANGED <<optimal_times, platforms, posts_per_week, start_date, df,
                   posts_arg, min_gap_hours, scheduled_posts, adjusted>>
    /\ UNCHANGED <<orchestratorVars, engagementVars, monitorVars>>

\* pd.DataFrame([]) has no column 'datetime': sort_values raises KeyError
create_weekly_schedule ==
    /\ op = "idle"
    /\ \E pfs \in PlatformLists, now \in StartDates, tie \in TieOrders :
       \E ppw \in PostsPerWeek(pfs) :
        LET schedule == ScheduleList(optimal_times, pfs, ppw, now, <<>>)
        IN  /\ platforms' = pfs
            /\ posts_per_week' = ppw
            /\ start_date' = now
            /\ IF schedule = <<>>
               THEN df' = <<>> /\ raised' = "KeyError"
               ELSE df' = SortValues(schedule, tie) /\ raised' = ""
    /\ op' = "create_weekly_schedule"
    /\ UNCHANGED <<optimal_times, got_platform, got_date, got_custom_times,
                   scheduled_datetime, posts_arg, min_gap_hours, scheduled_posts,
                   adjusted>>
    /\ UNCHANGED <<orchestratorVars, engagementVars, monitorVars>>

avoid_conflicts ==
    /\ op = "idle"
    /\ \E posts \in PostLists, min_gap \in Gaps :
        LET result == AvoidConflictsResult(posts, min_gap)
        IN  /\ posts_arg' = posts
            /\ min_gap_hours' = min_gap
            /\ adjusted' = result
            /\ scheduled_posts' = CallerList(posts, result)
    /\ op' = "avoid_conflicts"
    /\ raised' = ""
    /\ UNCHANGED <<optimal_times, got_platform, got_date, got_custom_times,
                   scheduled_datetime, platforms, posts_per_week, start_date, df>>
    /\ UNCHANGED <<orchestratorVars, engagementVars, monitorVars>>

\* avoid_conflicts called once more, on the list it returned, with the same
\* min_gap_hours
avoid_conflicts_again ==
    /\ op = "avoid_conflicts"
    /\ LET result == AvoidConflictsResult(adjusted, min_gap_hours)
       IN  /\ posts_arg' = adjusted
           /\ adjusted' = result
           /\ scheduled_posts' = CallerList(adjusted, result)
    /\ op' = "avoid_conflicts_again"
    /\ raised' = ""
    /\ UNCHANGED <<optimal_times, got_platform, got_date, got_custom_times,
                   scheduled_datetime, platforms, posts_per_week, start_date, df,
                   min_gap_hours>>
    /\ UNCHANGED <<orchestratorVars, engagementVars, monitorVars>>

\* the caller is done with what the call returned
ReleaseResult ==
    /\ op # "idle"
    /\ op' = "idle"
    /\ got_platform' = ""
    /\ got_date' = 0
    /\ got_custom_times' = NoCustom
    /\ scheduled_datetime' = 0
    /\ platforms' = <<>>
    /\ posts_per_week' = <<>>
    /\ start_date' = 0
    /\ df' = <<>>
    /\ raised' = ""
    /\ posts_arg' = <<>>
    /\ min_gap_hours' = 0
    /\ scheduled_posts' = <<>>
    /\ adjusted' = <<>>
    /\ UNCHANGED optimal_times
    /\ UNCHANGED <<orchestratorVars, engagementVars, monitorVars>>

Next ==
    \/ get_optimal_time
    \/ create_weekly_schedule
    \/ avoid_conflicts
    \/ avoid_conflicts_again
    \/ ReleaseResult

Spec == Init /\ [][Next]_vars

----------------------------------------------------------------------------
(* schedule_all_posts, one post at a time *)

\* schedule_all_posts is called with a calendar
schedule_all_posts ==
    /\ orch_pc \in {"idle", "returned"}
    /\ \E posts \in Calendars :
        /\ calendar' = posts
        /\ results' = NewResults(posts)
    /\ publish_log' = <<>>
    /\ orch_pc' = "loop"
    /\ UNCHANGED <<buffer_token, tweepy_installed>>
    /\ UNCHANGED <<schedulerVars, engagementVars, monitorVars>>

\* one turn of for post in content_calendar['posts']
schedule_next_post ==
    /\ orch_pc = "loop"
    /\ Len(publish_log) < Len(calendar)
    /\ \E answer \in ApiAnswers :
        LET post == calendar[Len(publish_log) + 1]
            optimal_time == GetOptimalTime(optimal_times, post.platform,
                                           post.scheduled_date, NoCustom)
            call == SchedulePost(buffer_token, tweepy_installed, post.platform,
                                 optimal_time, answer)
        IN  /\ results' = LoopBody(results, post, call, optimal_time)
            /\ publish_log' = Append(publish_log, call)
    /\ UNCHANGED <<buffer_token, tweepy_installed, calendar, orch_pc>>
    /\ UNCHANGED <<schedulerVars, engagementVars, monitorVars>>

\* return results
schedule_all_posts_return ==
    /\ orch_pc = "loop"
    /\ Len(publish_log) = Len(calendar)
    /\ orch_pc' = "returned"
    /\ UNCHANGED <<buffer_token, tweepy_installed, calendar, results, publish_log>>
    /\ UNCHANGED <<schedulerVars, engagementVars, monitorVars>>

NextOrchestrator ==
    \/ schedule_all_posts
    \/ schedule_next_post
    \/ schedule_all_posts_return

SpecOrchestrator == InitOrchestrator /\ [][NextOrchestrator]_vars

----------------------------------------------------------------------------
(* process_comment *)

process_comment ==
    /\ comment_pc = "idle"
    /\ \E comment \in CommentTexts, user_name \in UserNames,
          platform \in CommentPlatforms, answer \in ClassifierAnswers,
          reply \in ResponderAnswers :
        LET done == ProcessComment(comment, user_name, platform, "test_123",
                                   answer, reply)
        IN  /\ comment_result' = done.result
            /\ chain_runs' = done.chain_runs
    /\ comment_pc' = "processed"
    /\ UNCHANGED <<schedulerVars, orchestratorVars, monitorVars>>

\* the caller is done with the dict: main prints it and takes the next comment
ReleaseComment ==
    /\ comment_pc = "processed"
    /\ comment_pc' = "idle"
    /\ comment_result' = NoResult
    /\ chain_runs' = <<>>
    /\ UNCHANGED <<schedulerVars, orchestratorVars, monitorVars>>

NextEngagement ==
    \/ process_comment
    \/ ReleaseComment

SpecEngagement == Init /\ [][NextEngagement]_vars

----------------------------------------------------------------------------
(* The monitoring run: main calls start_monitoring, which calls
   monitor_comments for one platform after the other. *)

\* main: agent.start_monitoring(platforms=args.platforms), up to the call of
\* monitor_comments for the first platform
start_monitoring ==
    /\ monitor_pc = "idle"
    /\ \E pfs \in MonitorLists : monitored' = pfs
    /\ monitor_index' = 1
    /\ monitor_pc' = "enter"
    /\ UNCHANGED <<checked, interrupts>>
    /\ UNCHANGED <<schedulerVars, orchestratorVars, engagementVars>>

\* monitor_comments: the log line before the loop, then into while True: try:
enter_monitor_comments ==
    /\ monitor_pc = "enter"
    /\ monitor_pc' = "check"
    /\ UNCHANGED <<monitored, monitor_index, checked, interrupts>>
    /\ UNCHANGED <<schedulerVars, orchestratorVars, engagementVars>>

\* logger.debug(f"Checked {platform} for new comments")
check_comments ==
    /\ monitor_pc = "check"
    /\ checked' = checked \cup {monitored[monitor_index]}
    /\ monitor_pc' = "sleep"
    /\ UNCHANGED <<monitored, monitor_index, interrupts>>
    /\ UNCHANGED <<schedulerVars, orchestratorVars, engagementVars>>

\* time.sleep(check_interval) returns: the next turn of while True
sleep_over ==
    /\ monitor_pc = "sleep"
    /\ monitor_pc' = "check"
    /\ UNCHANGED <<monitored, monitor_index, checked, interrupts>>
    /\ UNCHANGED <<schedulerVars, orchestratorVars, engagementVars>>

\* Ctrl+C.  Inside the try of monitor_comments the exception is caught
\* there: break leaves while True, monitor_comments returns and the for loop
\* of start_monitoring goes on with the next platform, or start_monitoring
\* returns after the last.  Outside that try it reaches the except branch
\* of main.
keyboard_interrupt ==
    /\ monitor_pc \in {"enter", "check", "sleep"}
    /\ interrupts < MaxInterrupts
    /\ interrupts' = interrupts + 1
    /\ IF monitor_pc = "enter"
       THEN monitor_pc' = "stopped" /\ UNCHANGED monitor_index
       ELSE IF monitor_index < Len(monitored)
            THEN monitor_pc' = "enter" /\ monitor_index' = monitor_index + 1
            ELSE monitor_pc' = "returned" /\ UNCHANGED monitor_index
    /\ UNCHANGED <<monitored, checked>>
    /\ UNCHANGED <<schedulerVars, orchestratorVars, engagementVars>>

\* the steps of the program itself
MonitorStep ==
    \/ start_monitoring
    \/ enter_monitor_comments
    \/ check_comments
    \/ sleep_over

NextMonitor ==
    \/ MonitorStep
    \/ keyboard_interrupt

\* The run is one thread that is never held back: whenever it has a step to
\* take it takes one.  Nothing says that Ctrl+C is ever pressed.
SpecMonitor == Init /\ [][NextMonitor]_vars /\ WF_vars(MonitorStep)

----------------------------------------------------------------------------
(* Properties of avoid_conflicts *)

Resolved == op = "avoid_conflicts"

\* the entry as it was handed in
Orig(post) == PostById(posts_arg, post.id)

\* the position in s of the entry of the same platform emitted last before
\* position k, 0 if there is none
PrevSame(s, k) ==
    LET earlier == {j \in 1..(k - 1) : s[j].platform = s[k].platform}
    IN  IF earlier = {} THEN 0
        ELSE CHOOSE j \in earlier : \A j2 \in earlier : j2 <= j

Shifted(post) == post.datetime # Orig(post).datetime

\* C1: with min_gap_hours > 0, any two entries of one platform that follow
\* each other in the list returned are at least min_gap_hours apart.
C1_MinGapRestored ==
    (Resolved /\ min_gap_hours > 0) =>
        \A k \in 1..Len(adjusted) :
            PrevSame(adjusted, k) # 0 =>
                adjusted[k].datetime - adjusted[PrevSame(adjusted, k)].datetime
                    >= min_gap_hours * UnitsPerHour

\* several entries of one platform at the same datetime have been resolved
C1_Witness ==
    /\ Resolved
    /\ min_gap_hours > 0
    /\ \E i, j, k \in 1..Len(posts_arg) :
        /\ i < j /\ j < k
        /\ posts_arg[i].platform = posts_arg[j].platform
        /\ posts_arg[j].platform = posts_arg[k].platform
        /\ posts_arg[i].datetime = posts_arg[j].datetime
        /\ posts_arg[j].datetime = posts_arg[k].datetime
    /\ \E k \in 1..Len(adjusted) : Shifted(adjusted[k])

\* C2: an entry closer than min_gap_hours to the entry of its platform
\* emitted before it is moved by min_gap_hours - gap + 0.5 h, which puts it
\* min_gap_hours + 0.5 h after that entry; two instagram entries at T and
\* T + 1 h with min_gap_hours = 2 leave the second at T + 2.5 h.
C2_ShiftAmount ==
    Resolved =>
        /\ \A k \in 1..Len(adjusted) :
            LET j == PrevSame(adjusted, k)
                was == Orig(adjusted[k]).datetime
            IN  (j # 0 /\ was - adjusted[j].datetime < min_gap_hours * UnitsPerHour) =>
                    /\ adjusted[k].datetime - was
                          = min_gap_hours * UnitsPerHour - (was - adjusted[j].datetime) + 1
                    /\ adjusted[k].datetime
                          = adjusted[j].datetime + min_gap_hours * UnitsPerHour + 1
        /\ \A T \in Slots :
            ( /\ Len(posts_arg) = 2
              /\ min_gap_hours = 2
              /\ posts_arg[1].platform = "instagram" /\ posts_arg[1].datetime = T
              /\ posts_arg[2].platform = "instagram"
              /\ posts_arg[2].datetime = T + 1 * UnitsPerHour ) =>
                /\ scheduled_posts[1].datetime = T
                /\ scheduled_posts[2].datetime = T + 5

\* two instagram entries one hour apart have been resolved with a gap of 2 h
C2_Witness ==
    /\ Resolved
    /\ Len(posts_arg) = 2
    /\ min_gap_hours = 2
    /\ posts_arg[1].platform = "instagram" /\ posts_arg[2].platform = "instagram"
    /\ posts_arg[2].datetime = posts_arg[1].datetime + UnitsPerHour
    /\ Shifted(adjusted[2])

\* C3: with min_gap_hours > 0 no entry ends earlier than it was handed in.
C3_NeverEarlier ==
    (Resolved /\ min_gap_hours > 0) =>
        /\ Len(scheduled_posts) = Len(posts_arg)
        /\ \A i \in 1..Len(posts_arg) :
            scheduled_posts[i].datetime >= posts_arg[i].datetime
        /\ \A k \in 1..Len(adjusted) :
            adjusted[k].datetime >= Orig(adjusted[k]).datetime

\* an entry has been moved
C3_Witness ==
    /\ Resolved
    /\ min_gap_hours > 0
    /\ \E i \in 1..Len(posts_arg) : scheduled_posts[i].datetime > posts_arg[i].datetime

\* C4: an entry that is the first of its platform, or at least min_gap_hours
\* after the entry of its platform emitted before it, is returned as it was
\* handed in; entries of other platforms never move an entry.
C4_UnchangedWhenNoConflict ==
    Resolved =>
        /\ \A k \in 1..Len(adjusted) :
            LET j == PrevSame(adjusted, k)
                was == Orig(adjusted[k])
            IN  (j = 0 \/ was.datetime - adjusted[j].datetime
                            >= min_gap_hours * UnitsPerHour) =>
                    adjusted[k] = was
        /\ (\A i, j \in 1..Len(posts_arg) :
                i # j => posts_arg[i].platform # posts_arg[j].platform) =>
                    scheduled_posts = posts_arg

\* an entry exactly min_gap_hours after its predecessor, and two entries of
\* different platforms at one datetime, have been returned unchanged
C4_Witness ==
    /\ Resolved
    /\ min_gap_hours > 0
    /\ \E k \in 1..Len(adjusted) :
        /\ PrevSame(adjusted, k) # 0
        /\ adjusted[k].datetime - adjusted[PrevSame(adjusted, k)].datetime
              = min_gap_hours * UnitsPerHour
        /\ ~Shifted(adjusted[k])
    /\ \E i, j \in 1..Len(adjusted) :
        /\ adjusted[i].platform # adjusted[j].platform
        /\ Orig(adjusted[i]).datetime = Orig(adjusted[j]).datetime
        /\ ~Shifted(adjusted[i]) /\ ~Shifted(adjusted[j])

\* C5: get_optimal_time returns the time of day times[w mod len(times)] of
\* the candidate list in use, w being the weekday of the date (Monday = 0);
\* with the four times of instagram, Monday and Friday give the first and
\* Saturday the second.
C5_WeekdayRotation ==
    op = "get_optimal_time" =>
        LET times ==
                IF got_custom_times.given /\ Len(got_custom_times.times) > 0
                THEN got_custom_times.times
                ELSE IF Lower(got_platform) \in DOMAIN optimal_times
                     THEN optimal_times[Lower(got_platform)]
                     ELSE <<Time(12, 0)>>
            w == (got_date \div UnitsPerDay) % 7
        IN  /\ scheduled_datetime % UnitsPerDay = times[(w % Len(times)) + 1]
            /\ scheduled_datetime \div UnitsPerDay = got_date \div UnitsPerDay
            /\ (got_platform = "instagram" /\ ~got_custom_times.given) =>
                    /\ w \in {0, 4} => scheduled_datetime % UnitsPerDay = Time(11, 0)
                    /\ w = 5 => scheduled_datetime % UnitsPerDay = Time(13, 0)

\* a time has been selected for instagram on a Friday
C5_Witness ==
    /\ op = "get_optimal_time"
    /\ got_platform = "instagram"
    /\ ~got_custom_times.given
    /\ (got_date \div UnitsPerDay) % 7 = 4
    /\ scheduled_datetime % UnitsPerDay = Time(11, 0)

Built == op = "create_weekly_schedule" /\ raised = ""

\* the number of posts create_weekly_schedule makes for the platform at
\* place k of the list
PostsMade(k) ==
    LET c == IF platforms[k] \in DOMAIN posts_per_week
             THEN posts_per_week[platforms[k]] ELSE 7
    IN  IF c > 0 THEN c ELSE 0

RECURSIVE PostsBefore(_)
PostsBefore(k) == IF k <= 1 THEN 0 ELSE PostsBefore(k - 1) + PostsMade(k - 1)

RowById(id) == df[CHOOSE n \in 1..Len(df) : df[n].id = id]

\* the days after the start of the posts of place k, in the order made
OffsetsOf(k) ==
    LET base == PostsBefore(k)
    IN  [i \in 1..PostsMade(k) |->
            RowById(base + i).date - start_date \div UnitsPerDay]

\* C6: post i (from 0) of a platform with count >= 1 is dated
\* floor(i * 7 / count) days after the start: count 3 gives the days 0, 2, 4
\* and count 7 the days 0 to 6.
C6_DayOffsets ==
    Built =>
        \A k \in 1..Len(platforms) :
            /\ \A i \in 1..PostsMade(k) :
                /\ RowById(PostsBefore(k) + i).platform = platforms[k]
                /\ OffsetsOf(k)[i] = ((i - 1) * 7) \div PostsMade(k)
            /\ PostsMade(k) = 3 => OffsetsOf(k) = <<0, 2, 4>>
            /\ PostsMade(k) = 7 => OffsetsOf(k) = <<0, 1, 2, 3, 4, 5, 6>>

\* a schedule has been built with three posts for one platform and seven
\* for another
C6_Witness ==
    /\ Built
    /\ \E k \in 1..Len(platforms) : PostsMade(k) = 3
    /\ \E k \in 1..Len(platforms) : PostsMade(k) = 7

\* C7: the rows create_weekly_schedule returns never go back in datetime.
C7_SortedByDatetime ==
    Built =>
        \A n \in 1..(Len(df) - 1) : df[n].datetime <= df[n + 1].datetime

\* a schedule of several platforms has been returned in another order than
\* the posts were made in
C7_Witness ==
    /\ Built
    /\ \E i, j \in 1..Len(df) : df[i].platform # df[j].platform
    /\ \E n \in 1..(Len(df) - 1) :
        df[n].id > df[n + 1].id /\ df[n].datetime < df[n + 1].datetime

\* C8: every entry returned has the datetime of its date and time, and the
\* day_of_week of its datetime, shifted or not.
C8_FieldsAgree ==
    Resolved =>
        \A k \in 1..Len(adjusted) :
            /\ adjusted[k].datetime = Combine(adjusted[k].date, adjusted[k].time)
            /\ adjusted[k].day_of_week = DayName(adjusted[k].datetime)

\* C9: each entry is measured against the datetime its platform's previous
\* entry has after its own shift; instagram entries at T, T + 1 h, T + 2 h
\* with min_gap_hours = 2 end at T, T + 2.5 h and T + 5 h.
C9_ShiftsCascade ==
    Resolved =>
        /\ \A k \in 1..Len(adjusted) :
            LET j == PrevSame(adjusted, k)
                was == Orig(adjusted[k]).datetime
            IN  j # 0 =>
                    adjusted[k].datetime =
                        IF was - adjusted[j].datetime < min_gap_hours * UnitsPerHour
                        THEN adjusted[j].datetime + min_gap_hours * UnitsPerHour + 1
                        ELSE was
        /\ ( /\ Len(posts_arg) = 3
             /\ min_gap_hours = 2
             /\ \A i \in 1..3 :
                 /\ posts_arg[i].platform = "instagram"
                 /\ posts_arg[i].datetime = (i - 1) * UnitsPerHour ) =>
                [i \in 1..3 |-> scheduled_posts[i].datetime] = <<0, 5, 10>>

\* an entry has been moved because of the shift of the entry before it: it
\* was far enough from where that entry had been handed in
C9_Witness ==
    /\ Resolved
    /\ min_gap_hours > 0
    /\ \E k \in 1..Len(adjusted) :
        LET j == PrevSame(adjusted, k)
        IN  /\ j # 0
            /\ Shifted(adjusted[j])
            /\ Shifted(adjusted[k])
            /\ Orig(adjusted[k]).datetime - Orig(adjusted[j]).datetime
                  >= min_gap_hours * UnitsPerHour

\* C10: the entries are returned in ascending order of the datetime they
\* were handed in with, whatever the order of the input and whatever the
\* shifts made of their datetimes.
C10_OrderOfProcessing ==
    Resolved =>
        /\ Len(adjusted) = Len(posts_arg)
        /\ {adjusted[k].id : k \in 1..Len(adjusted)} = 1..Len(posts_arg)
        /\ \A i, j \in 1..Len(adjusted) :
            i < j => Orig(adjusted[i]).datetime <= Orig(adjusted[j]).datetime

\* an unsorted input has been resolved, and a shifted entry is returned
\* before an entry of another platform that is earlier than it
C10_Witness ==
    /\ Resolved
    /\ \E i, j \in 1..Len(posts_arg) :
        i < j /\ posts_arg[i].datetime > posts_arg[j].datetime
    /\ \E i, j \in 1..Len(adjusted) :
        /\ i < j
        /\ adjusted[i].platform # adjusted[j].platform
        /\ Shifted(adjusted[i])
        /\ adjusted[i].datetime > adjusted[j].datetime

----------------------------------------------------------------------------
(* Properties of get_optimal_time and create_weekly_schedule, continued *)

Selected == op = "get_optimal_time"

\* the call was made with no custom_times, or with an empty list
NoOverride == ~got_custom_times.given \/ got_custom_times.times = <<>>

\* the names of the model that stand for one platform in several letter cases
CaseVariants ==
    {{"instagram", "Instagram", "INSTAGRAM"}, {"facebook", "Facebook"}}

\* C11: for a platform that is not in the table get_optimal_time ends
\* without an exception and returns 12:00 on the day asked for, whatever the
\* weekday.
C11_UnknownPlatformDefault ==
    (Selected /\ NoOverride /\ Lower(got_platform) \notin DOMAIN optimal_times) =>
        /\ raised = ""
        /\ scheduled_datetime % UnitsPerDay = Time(12, 0)
        /\ scheduled_datetime \div UnitsPerDay = got_date \div UnitsPerDay

\* a time has been selected for the unknown platform on a Sunday
C11_Witness ==
    /\ Selected
    /\ NoOverride
    /\ got_platform = "unknown_platform_xyz"
    /\ (got_date \div UnitsPerDay) % 7 = 6
    /\ scheduled_datetime % UnitsPerDay = Time(12, 0)

\* C12: the value returned for a platform name is the value returned, for
\* the same date and custom_times, for the name in any other letter case.
C12_CaseInsensitive ==
    Selected =>
        \A names \in CaseVariants :
            got_platform \in names =>
                \A other \in names :
                    scheduled_datetime =
                        GetOptimalTime(optimal_times, other, got_date, got_custom_times)

\* a time of instagram's own list has been selected for "Instagram"
C12_Witness ==
    /\ Selected
    /\ NoOverride
    /\ got_platform = "Instagram"
    /\ scheduled_datetime % UnitsPerDay = Time(19, 0)

\* the platform names of the model written in lower case
LowercaseNames ==
    {"instagram", "linkedin", "twitter", "facebook", "unknown_platform_xyz"}

\* the number of posts asked for under the lower-case name of place k
NormalizedCount(k) ==
    LET name == Lower(platforms[k])
        c == IF name \in DOMAIN posts_per_week THEN posts_per_week[name] ELSE 7
    IN  IF c > 0 THEN c ELSE 0

RECURSIVE NormalizedCountOf(_, _)
NormalizedCountOf(name, k) ==
    IF k = 0 THEN 0
    ELSE NormalizedCountOf(name, k - 1)
            + (IF Lower(platforms[k]) = name THEN NormalizedCount(k) ELSE 0)

\* C13: every row of the schedule names its platform in lower case, and
\* each platform gets the number of posts posts_per_week holds under its
\* lower-case name.
C13_PlatformNormalized ==
    Built =>
        /\ \A n \in 1..Len(df) : df[n].platform \in LowercaseNames
        /\ \A name \in LowercaseNames :
            Cardinality({n \in 1..Len(df) : Lower(df[n].platform) = name})
                = NormalizedCountOf(name, Len(platforms))

\* C14: a call of get_optimal_time returns what its platform, date and
\* custom_times give with the table as the agent was built with, whatever
\* calls were made before it.
C14_Deterministic ==
    Selected =>
        /\ raised = ""
        /\ scheduled_datetime =
              GetOptimalTime(OptimalTimes, got_platform, got_date, got_custom_times)

\* a time has been selected for a platform of the table without custom_times
C14_Witness ==
    /\ Selected
    /\ ~got_custom_times.given
    /\ got_platform = "twitter"
    /\ scheduled_datetime % UnitsPerDay = Time(21, 0)

\* C15: custom_times that are not empty are the list the time is taken
\* from in that call; the table is the one the agent was built with after
\* every call of every operation, and a call without custom_times takes
\* its time from the list of the table.
C15_OverrideLeavesTable ==
    /\ optimal_times = OptimalTimes
    /\ Selected =>
        LET w == (got_date \div UnitsPerDay) % 7
            own == OptimalTimes[Lower(got_platform)]
        IN  /\ ~NoOverride =>
                scheduled_datetime % UnitsPerDay =
                    got_custom_times.times[(w % Len(got_custom_times.times)) + 1]
            /\ (NoOverride /\ Lower(got_platform) \in DOMAIN OptimalTimes) =>
                scheduled_datetime % UnitsPerDay = own[(w % Len(own)) + 1]

\* a time that is not in the platform's list has been selected from
\* custom_times
C15_Witness ==
    /\ Selected
    /\ ~NoOverride
    /\ got_platform = "linkedin"
    /\ (got_date \div UnitsPerDay) % 7 = 1
    /\ got_custom_times.times = <<Time(6, 0), Time(18, 30)>>
    /\ scheduled_datetime % UnitsPerDay = Time(18, 30)
    /\ optimal_times = OptimalTimes

\* C16: create_weekly_schedule ends without an exception, and makes no row
\* for a platform whose posts_per_week value is 0, whatever the other
\* platforms and their counts.
C16_ZeroCountNoEntries ==
    op = "create_weekly_schedule" =>
        /\ raised = ""
        /\ \A k \in 1..Len(platforms) :
            (platforms[k] \in DOMAIN posts_per_week /\ posts_per_week[platforms[k]] = 0) =>
                \A n \in 1..Len(df) : df[n].platform # platforms[k]

\* the keys of posts_per_week with a negative value
NegativeKeys == {name \in DOMAIN posts_per_week : posts_per_week[name] < 0}

\* C17 as claimed: with a negative value in posts_per_week
\* create_weekly_schedule ends with InvalidConfigurationError and no row.
C17_NegativeCountRejected ==
    (op = "create_weekly_schedule" /\ NegativeKeys # {}) =>
        raised = "InvalidConfigurationError" /\ df = <<>>

\* C17 as amended: a negative value raises no InvalidConfigurationError;
\* no row is made for its platform, the other platforms get the rows of
\* their counts, and the call fails, with KeyError, exactly when no row at
\* all is made.
C17_NegativeCountSkipped ==
    (op = "create_weekly_schedule" /\ NegativeKeys # {}) =>
        /\ raised # "InvalidConfigurationError"
        /\ \A n \in 1..Len(df) : df[n].platform \notin NegativeKeys
        /\ raised = "KeyError" <=> PostsBefore(Len(platforms) + 1) = 0
        /\ raised = "" =>
            \A k \in 1..Len(platforms) :
                Cardinality({n \in 1..Len(df) :
                    /\ df[n].id > PostsBefore(k)
                    /\ df[n].id <= PostsBefore(k) + PostsMade(k)
                    /\ df[n].platform = platforms[k]}) = PostsMade(k)

\* a schedule has been built for a platform with a positive count next to
\* a platform with a negative one
C17_Witness ==
    /\ Built
    /\ \E k \in 1..Len(platforms) : platforms[k] \in NegativeKeys
    /\ \E k \in 1..Len(platforms) : PostsMade(k) > 0
    /\ Len(df) > 0

\* C18 as claimed: with min_gap_hours zero or negative avoid_conflicts ends
\* with InvalidConfigurationError and returns nothing.
C18_NonPositiveGapRejected ==
    (Resolved /\ min_gap_hours <= 0) =>
        raised = "InvalidConfigurationError" /\ adjusted = <<>>

\* C18 as amended: with min_gap_hours zero or negative avoid_conflicts does
\* not fail; it returns every entry, in ascending order of datetime, and
\* shifts none.
C18_NonPositiveGapNoShift ==
    (Resolved /\ min_gap_hours <= 0) =>
        /\ raised = ""
        /\ scheduled_posts = posts_arg
        /\ Len(adjusted) = Len(posts_arg)
        /\ \A k \in 1..Len(adjusted) : adjusted[k] = Orig(adjusted[k])
        /\ \A k \in 1..(Len(adjusted) - 1) :
            adjusted[k].datetime <= adjusted[k + 1].datetime

\* entries of one platform at one datetime, handed in out of order with
\* others, have been resolved with a negative min_gap_hours
C18_Witness ==
    /\ Resolved
    /\ min_gap_hours < 0
    /\ \E i, j \in 1..Len(posts_arg) :
        /\ i < j
        /\ posts_arg[i].platform = posts_arg[j].platform
        /\ posts_arg[i].datetime = posts_arg[j].datetime
    /\ \E i, j \in 1..Len(posts_arg) :
        i < j /\ posts_arg[i].datetime > posts_arg[j].datetime
    /\ Len(adjusted) = Len(posts_arg)

\* the call was made with an empty list for custom_times
EmptyOverride == got_custom_times.given /\ got_custom_times.times = <<>>

\* C19 as claimed: with an empty list for custom_times get_optimal_time
\* ends with InvalidConfigurationError.
C19_EmptyOverrideRejected ==
    (Selected /\ EmptyOverride) => raised = "InvalidConfigurationError"

\* C19 as amended: with an empty list for custom_times get_optimal_time
\* does not fail; it returns the time it returns without custom_times, from
\* the platform's list of the table or 12:00 for a platform not in it.
C19_EmptyOverrideFallsBack ==
    (Selected /\ EmptyOverride) =>
        LET times == IF Lower(got_platform) \in DOMAIN optimal_times
                     THEN optimal_times[Lower(got_platform)]
                     ELSE <<Time(12, 0)>>
            w == (got_date \div UnitsPerDay) % 7
        IN  /\ raised = ""
            /\ scheduled_datetime % UnitsPerDay = times[(w % Len(times)) + 1]
            /\ scheduled_datetime \div UnitsPerDay = got_date \div UnitsPerDay

\* a time of facebook's list has been selected with an empty custom_times
C19_Witness ==
    /\ Selected
    /\ EmptyOverride
    /\ got_platform = "facebook"
    /\ scheduled_datetime % UnitsPerDay = Time(15, 0)

\* the platform names of create_weekly_schedule in the order of their
\* characters: upper case comes before lower case
NamesInOrder == <<"Instagram", "facebook", "instagram">>
NameRank(name) == CHOOSE r \in 1..Len(NamesInOrder) : NamesInOrder[r] = name

\* C20 as claimed: rows of equal datetime stand in the order of their
\* platform names.
C20_TiesByPlatformName ==
    Built =>
        \A i, j \in 1..Len(df) :
            (i < j /\ df[i].datetime = df[j].datetime) =>
                NameRank(df[i].platform) <= NameRank(df[j].platform)

\* C20 as amended: the rows are every post made, once each, ordered by
\* datetime alone: a row of an earlier datetime stands before a row of a
\* later one, and the platform names decide nothing about rows of equal
\* datetime.
C20_OrderedByDatetimeOnly ==
    Built =>
        /\ Len(df) = PostsBefore(Len(platforms) + 1)
        /\ {df[n].id : n \in 1..Len(df)} = 1..Len(df)
        /\ \A i, j \in 1..Len(df) :
            df[i].datetime < df[j].datetime => i < j

\* rows of two platforms at one datetime have been returned against the
\* order of their names
C20_Witness ==
    /\ Built
    /\ \E n \in 1..(Len(df) - 1) :
        /\ df[n].datetime = df[n + 1].datetime
        /\ df[n].platform = "instagram"
        /\ df[n + 1].platform = "facebook"

\* the places of the list at which the name of place k stands
PlacesOf(k) == {k2 \in 1..Len(platforms) : platforms[k2] = platforms[k]}

\* the rows of the frame made for place k of the list
RowsOfPlace(k) ==
    LET base == PostsBefore(k)
        made == PostsMade(k)
    IN  {n \in 1..Len(df) : df[n].id > base /\ df[n].id <= base + made}

\* C21: two rows of one platform never have the same datetime, whatever the
\* count of the platform, 8 and more included; stated for lists that name
\* no platform twice.
C21_DistinctDatetimesPerPlatform ==
    (Built /\ \A k \in 1..Len(platforms) : PlacesOf(k) = {k}) =>
        \A i, j \in 1..Len(df) :
            (i # j /\ df[i].platform = df[j].platform) =>
                df[i].datetime # df[j].datetime

\* C22: a platform of the list with count c >= 1 gets exactly c rows, the
\* first dated on the day of the start, each dated 0 to 6 days after it, and
\* the days never go back from one post to the next.
C22_CountWithinWeek ==
    Built =>
        \A k \in 1..Len(platforms) :
            PostsMade(k) >= 1 =>
                LET rows == RowsOfPlace(k)
                    offsets == OffsetsOf(k)
                IN  /\ Cardinality(rows) = PostsMade(k)
                    /\ \A n \in rows : df[n].platform = platforms[k]
                    /\ PlacesOf(k) = {k} =>
                        Cardinality({n \in 1..Len(df) : df[n].platform = platforms[k]})
                            = PostsMade(k)
                    /\ offsets[1] = 0
                    /\ \A i \in 1..PostsMade(k) :
                        /\ offsets[i] >= 0
                        /\ offsets[i] <= DaysPerWeek - 1
                    /\ \A i \in 1..(PostsMade(k) - 1) :
                        offsets[i] <= offsets[i + 1]

\* a schedule has been built for a platform with more posts than the week
\* has days, and for one with fewer
C22_Witness ==
    /\ Built
    /\ \E k \in 1..Len(platforms) :
        /\ PostsMade(k) > DaysPerWeek
        /\ OffsetsOf(k)[PostsMade(k)] = DaysPerWeek - 1
    /\ \E k \in 1..Len(platforms) :
        PostsMade(k) > 1 /\ PostsMade(k) < DaysPerWeek

\* C23: a platform of the list that is no key of posts_per_week gets seven
\* rows, one dated on each of the seven days from the day of the start.
C23_DefaultSevenDaily ==
    Built =>
        /\ Len(df) = PostsBefore(Len(platforms) + 1)
        /\ \A k \in 1..Len(platforms) :
            platforms[k] \notin DOMAIN posts_per_week =>
                LET rows == RowsOfPlace(k)
                IN  /\ Cardinality(rows) = 7
                    /\ PlacesOf(k) = {k} =>
                        Cardinality({n \in 1..Len(df) : df[n].platform = platforms[k]})
                            = 7
                    /\ \A d \in 0..6 :
                        Cardinality({n \in rows :
                            /\ df[n].platform = platforms[k]
                            /\ df[n].date = start_date \div UnitsPerDay + d}) = 1

\* a schedule has been built for a platform that posts_per_week names only
\* in another letter case, next to a platform with a count of its own
C23_Witness ==
    /\ Built
    /\ \E k \in 1..Len(platforms) :
        /\ platforms[k] = "Instagram"
        /\ "Instagram" \notin DOMAIN posts_per_week
        /\ "instagram" \in DOMAIN posts_per_week
    /\ \E k \in 1..Len(platforms) :
        platforms[k] \in DOMAIN posts_per_week /\ PostsMade(k) = 2
    /\ Len(df) = 9

\* C24: with min_gap_hours > 0, avoid_conflicts called on the list it
\* returned shifts nothing: every entry keeps the datetime the first call
\* left it with.
C24_SecondPassShiftsNothing ==
    (op = "avoid_conflicts_again" /\ min_gap_hours > 0) =>
        /\ Len(adjusted) = Len(posts_arg)
        /\ \A k \in 1..Len(adjusted) :
            adjusted[k].datetime = Orig(adjusted[k]).datetime

\* the list of a first call that shifted an entry of one platform behind a
\* later entry of the other has been resolved once more
C24_Witness ==
    /\ op = "avoid_conflicts_again"
    /\ min_gap_hours > 0
    /\ \E i, j \in 1..Len(posts_arg) :
        /\ i < j
        /\ posts_arg[i].datetime > MaxSlot
        /\ posts_arg[i].datetime > posts_arg[j].datetime
        /\ posts_arg[i].platform # posts_arg[j].platform
    /\ adjusted # posts_arg

\* the place of the entry in the list handed in
PlaceOf(post) == CHOOSE i \in 1..Len(posts_arg) : posts_arg[i].id = post.id

\* C25: avoid_conflicts returns every entry handed in, once, under the
\* platform it came with; the entries of one platform stand in the order
\* of the datetimes they came with, entries of one datetime in the order
\* they were handed in.
C25_EntriesKept ==
    Resolved =>
        /\ Len(adjusted) = Len(posts_arg)
        /\ {adjusted[k].id : k \in 1..Len(adjusted)}
            = {posts_arg[k].id : k \in 1..Len(posts_arg)}
        /\ \A k \in 1..Len(adjusted) :
            adjusted[k].platform = Orig(adjusted[k]).platform
        /\ \A p \in ResolverPlatforms :
            Cardinality({k \in 1..Len(adjusted) : adjusted[k].platform = p})
                = Cardinality({k \in 1..Len(posts_arg) : posts_arg[k].platform = p})
        /\ \A i, j \in 1..Len(adjusted) :
            (i < j /\ adjusted[i].platform = adjusted[j].platform) =>
                \/ Orig(adjusted[i]).datetime < Orig(adjusted[j]).datetime
                \/ /\ Orig(adjusted[i]).datetime = Orig(adjusted[j]).datetime
                   /\ PlaceOf(adjusted[i]) < PlaceOf(adjusted[j])

\* three entries of one platform, handed in latest first, have been
\* resolved and two of them shifted
C25_Witness ==
    /\ Resolved
    /\ Len(posts_arg) = 3
    /\ \A i, j \in 1..3 :
        /\ posts_arg[i].platform = posts_arg[j].platform
        /\ i < j => posts_arg[i].datetime > posts_arg[j].datetime
    /\ Cardinality({k \in 1..3 : Shifted(adjusted[k])}) = 2
    /\ adjusted[1].id = 3

----------------------------------------------------------------------------
(* Properties of schedule_all_posts *)

Returned == orch_pc = "returned"

\* schedule_post raised for post i of the calendar, or returned a dict with
\* success false
PublishFailed(i) == publish_log[i].raised # "" \/ ~publish_log[i].value.success

\* the places of the posts published with success, in the order of the calendar
RECURSIVE PublishedPlaces(_)
PublishedPlaces(n) ==
    IF n = 0 THEN <<>>
    ELSE IF PublishFailed(n) THEN PublishedPlaces(n - 1)
         ELSE Append(PublishedPlaces(n - 1), n)

\* C26: when schedule_all_posts has returned, scheduled and failed together
\* hold as many entries as the calendar has posts; a post stands in failed,
\* once, exactly when schedule_post raised for it or returned success
\* false, and scheduled holds one entry for each of the other posts, in
\* their order.
C26_EveryPostRecordedOnce ==
    Returned =>
        LET published == PublishedPlaces(Len(calendar))
        IN  /\ results.total = Len(calendar)
            /\ Len(publish_log) = Len(calendar)
            /\ Len(results.scheduled) + Len(results.failed) = results.total
            /\ \A i \in 1..Len(calendar) :
                /\ PublishFailed(i) <=>
                    \E k \in 1..Len(results.failed) : results.failed[k] = calendar[i]
                /\ Cardinality({k \in 1..Len(results.failed) :
                                    results.failed[k] = calendar[i]}) <= 1
            /\ Len(results.scheduled) = Len(published)
            /\ \A k \in 1..Len(results.scheduled) :
                /\ results.scheduled[k].platform = calendar[published[k]].platform
                /\ results.scheduled[k].post_id = publish_log[published[k]].value.id

\* a calendar of two posts has been handled: schedule_post returned a dict
\* with success false for the first and one with success true for the second
C26_Witness ==
    /\ Returned
    /\ Len(calendar) = 2
    /\ publish_log[1].raised = ""
    /\ ~publish_log[1].value.success
    /\ publish_log[2].raised = ""
    /\ publish_log[2].value.success
    /\ Len(results.failed) = 1
    /\ Len(results.scheduled) = 1

----------------------------------------------------------------------------
(* Properties of process_comment *)

Processed == comment_pc = "processed"

\* the comments of CommentTexts with an escalation keyword in them, in any
\* letter case and as part of a longer word
TextsWithKeyword ==
    {"I want a REFUND", "Cancellation took ages", "URGENT offer, click here"}

\* C27: a comment is marked escalated exactly when it is classified as
\* complaint or an escalation keyword stands in its text, letter case
\* aside; an escalated comment gets the complaint acknowledgement with the
\* name of its writer, and no reply is generated for it.
C27_EscalationRule ==
    Processed =>
        /\ comment_result.escalated <=>
            \/ comment_result.classification = "complaint"
            \/ comment_result.comment \in TextsWithKeyword
        /\ comment_result.escalated =>
            /\ comment_result.response = Some(ComplaintAck(comment_result.user_name))
            /\ comment_result.user_name = "Sarah" =>
                comment_result.response =
                    <<"We're sorry to hear that, Sarah. Our team will reach out within 2 hours.">>
            /\ chain_runs = <<"classify">>

\* a comment classified as positive with a keyword in capital letters has
\* been escalated
C27_Witness ==
    /\ Processed
    /\ comment_result.classification = "positive"
    /\ comment_result.comment = "I want a REFUND"
    /\ comment_result.escalated
    /\ comment_result.response # None

\* C28: a comment classified as spam gets the response None, whatever its
\* text.
C28_SpamGetsNoResponse ==
    (Processed /\ comment_result.classification = "spam") =>
        comment_result.response = None

----------------------------------------------------------------------------
(* Properties of the monitoring run *)

Stopped == monitor_pc \in {"returned", "stopped"}

\* C29: unless a KeyboardInterrupt is delivered, the run comes to a state in
\* which every platform of the list has been checked.
C29_EveryPlatformChecked ==
    <>(\/ interrupts > 0
       \/ /\ monitor_pc # "idle"
          /\ \A i \in 1..Len(monitored) : monitored[i] \in checked)

\* C30: once a KeyboardInterrupt has been delivered no platform is checked
\* any more, and the run comes to its end.
C30_InterruptStopsMonitoring ==
    /\ [][interrupts >= 1 => ~(monitor_pc = "check" /\ monitor_pc' = "sleep")]_vars
    /\ (interrupts >= 1) ~> Stopped

====
